---- MODULE Spec2Model ----
(***************************************************************************)
(* WhatsApp <-> Telegram bridge: the message router (WhatsApp message      *)
(* events forwarded to Telegram with a reply mapping, Telegram updates     *)
(* routed back to WhatsApp), the connection lifecycle of the WhatsApp      *)
(* socket (open, close, reconnect timers) and the persistence of the       *)
(* credential files.  The repository holds several versions of each        *)
(* module; a behaviour runs one of them, chosen in the initial state.      *)
(***************************************************************************)
EXTENDS Integers, Sequences, FiniteSets, TLC

(***************************************************************************)
(* Bounds of the model.                                                    *)
(***************************************************************************)
MaxRedeliver == 2
MaxEvents == 3
MaxTgId == 2
TickDays == 14
MaxNow == 14
MaxSockets == 7
MaxSignals == 2
MaxCredVer == 2
MaxBatches == 2
MaxBatchLen == 2
MaxWrites == 3
MaxPersists == 2

(***************************************************************************)
(* Program constants.                                                      *)
(***************************************************************************)
\* src/src/models/Mapping.js:17   createdAt: { ..., expires: '14d' }
MappingTTLDays == 14
\* src/src/whatsapp.js:471   whatsappOptions.maxReconnectAttempts || 5
maxReconnectAttempts == 5
\* src/src/whatsapp.js:519   const backoff = reconnectAttempts * 2000
BackoffStepMs == 2000
\* src/unnamed/part_004:194   setTimeout(() => startWhatsApp()..., 5000)
ReconnectDelayMs == 5000
\* src/src/whatsapp.js:516   if (code === 401); DisconnectReason.loggedOut of part_004:189
LoggedOutCode == 401
\* src/unnamed/part_006:82   setTimeout(() => startWhatsApp(), 5000)
ReconnectDelayP6Ms == 5000

VARIABLES
  variant,      \* router version in use: "wjs" | "p4" | "p8"
  fallbackSet,  \* process.env.WHATSAPP_ID is set (telegram.js fallback target)
  now,          \* clock, in days
  mapDocs,      \* documents of the MessageMap / Mapping collection
  tgNext,       \* next message id Telegram assigns to a message of the bot
  tgTried,      \* per WhatsApp message: events that passed the type and fromMe filters,
                \* and the texts handed to the Telegram send
  waIn,         \* per WhatsApp message: how often its messages.upsert event was delivered
  tgFwd,        \* per WhatsApp message: forwards Telegram accepted
  fwdLog,       \* forwards Telegram accepted: [tg, jid, at, mapped]
  waOut,        \* messages the bridge sent on WhatsApp: [to, kind, ref]
  upd,          \* per Telegram update: what its deliveries caused
  events        \* events delivered so far

routerVars == <<variant, fallbackSet, now, mapDocs, tgNext, waIn, tgFwd, fwdLog, waOut, upd, events,
               tgTried>>

VARIABLES
  connVariant,   \* WhatsApp module in use: "v2" (whatsapp.js, second startWhatsApp) |
                 \* "p4" | "p5" | "p6" (src/unnamed/part_004, part_005, part_006)
  socks,         \* per socket: [st, attempts, opened, used, saves, retry, redone]
  nsock,         \* sockets created so far (calls of startWhatsApp that reached makeWASocket)
  timers,        \* pending setTimeout(startWhatsApp) callbacks: [by, delay]
  delays,        \* delays of the reconnects scheduled since the last open
  terminalSeen,  \* a close with status 401 has been handled
  terminalSched, \* reconnects scheduled by or after a close with status 401
  lastSend,      \* the last send asked of sendTextToJid / waSock.sendMessage, or NoSend
  tgHandler,     \* the socket whose closure the Telegram side sends on, or DroppingHandler
  exitStage      \* 401 path of whatsapp.js:570-588: "none" | "clearing" | "timer" | "exited"

connVars == <<connVariant, socks, nsock, timers, delays, terminalSeen, terminalSched, exitStage,
             lastSend, tgHandler>>

VARIABLES
  credVariant,  \* WhatsApp module in use: "wjs" (whatsapp.js, first version) | "v2" | "p4" | "p5"
  disk,         \* files of the auth directory: name -> content, or Absent
  store,        \* what MongoDB holds per file name (AuthFile documents, Session.files)
  up,           \* the process runs and startWhatsApp has loaded the auth state
  bootDisk,     \* the auth directory as useMultiFileAuthState read it at the last start
  bootStore,    \* what the store held, and could be read as, at the last start
  lastUpdate,   \* the last creds.update: the store took every write, the files whose
                \* current content the store then held, the files of the bundle
  lastSnap,     \* the credential bundle as the last persist that wrote anything read it
  loaded,       \* what the load of the stored files gave when this process started
  reauthAsked,  \* the operator asked for a fresh login (POST /admin/clear-local-auth)
  storeCleared  \* the stored auth files were deleted (AuthFile.deleteMany)

clearVars == <<reauthAsked, storeCleared>>

NoUpdate == [accepted |-> FALSE, stored |-> {}, bundle |-> {}, unhandled |-> FALSE]

credVars == <<credVariant, disk, store, up, bootDisk, bootStore, loaded, lastUpdate, lastSnap,
              clearVars>>

VARIABLES
  sdVariant,    \* shutdown code in use: "g4", "g6" (graceful.js with part_004,
                \* part_006 as WhatsApp module) | "idx" (index.js:269-299)
  sdOpts,       \* which of queueStopFn, waSock.close, mongooseConn.close graceful.js was given
  proc,         \* "up" | "exited"
  coord,        \* per call of the shutdown function: where it is suspended
  shuttingDown, \* the flag of index.js:269
  waSig,        \* the process.once handlers of part_004:291-292, per signal
  effects,      \* how often each teardown side effect was run
  order,        \* the side effects in the order they were run
  dbOpen,       \* the mongoose connection is open
  credDisk,     \* version of the credential files in the auth directory
  credStore,    \* version of the credential files the store holds
  sigs          \* shutdown signals delivered so far

sdVars == <<sdVariant, sdOpts, proc, coord, shuttingDown, waSig, effects, order, dbOpen,
            credDisk, credStore, sigs>>

VARIABLES
  ordVariant,   \* messages.upsert handler in use: "wjs" (whatsapp.js:204-257) | "p4"
  batches,      \* the messages.upsert events so far: per event the remoteJid of each message
  nbatch,       \* how many events have arrived
  hpos,         \* per event, where its handler is: message index and the await it is in
  issued        \* the Telegram sends in the order they were issued

ordVars == <<ordVariant, batches, nbatch, hpos, issued>>

VARIABLES
  authDirVer,   \* version of the files in AUTH_DIR
  sessionVer,   \* version of the files map the Session document holds
  runs,         \* per call of persistAuthFilesToMongo: [at, files, by]
  lastReadVer   \* what the latest read of AUTH_DIR by a persist saw

perVars == <<authDirVer, sessionVer, runs, lastReadVer>>

vars == <<routerVars, connVars, credVars, sdVars, ordVars, perVars>>

nonRouterVars == <<connVars, credVars, sdVars, ordVars, perVars>>

nonConnVars == <<routerVars, credVars, sdVars, ordVars, perVars>>

nonCredVars == <<routerVars, connVars, sdVars, ordVars, perVars>>

nonSdVars == <<routerVars, connVars, credVars, ordVars, perVars>>

nonOrdVars == <<routerVars, connVars, credVars, sdVars, perVars>>

nonPerVars == <<routerVars, connVars, credVars, sdVars, ordVars>>

(***************************************************************************)
(* Values of the parts a specification does not exercise.                  *)
(***************************************************************************)
SocketIds == 1..MaxSockets

NoSocket == [st |-> "none", attempts |-> 0, opened |-> FALSE, used |-> -1, saves |-> 0,
             retry |-> FALSE, redone |-> FALSE]

NoSend == [st |-> "none", transport |-> FALSE, err |-> "none", stale |-> FALSE]
\* src/src/whatsapp.js:509   onReady({ handleTelegramUpdate: (u) => {} })
DroppingHandler == 0

ConnIdle ==
  /\ connVariant = "none"
  /\ socks = [s \in SocketIds |-> NoSocket]
  /\ nsock = 0
  /\ timers = {}
  /\ delays = <<>>
  /\ terminalSeen = FALSE
  /\ terminalSched = 0
  /\ exitStage = "none"
  /\ lastSend = NoSend
  /\ tgHandler = DroppingHandler

SignalNames == {"SIGINT", "SIGTERM", "uncaughtException"}

RunIds == 1..MaxSignals

NoEffects == [queueStop |-> 0, save |-> 0, sockClose |-> 0, dbClose |-> 0]

SdIdle ==
  /\ sdVariant = "none"
  /\ sdOpts = [queue |-> FALSE, sock |-> FALSE, db |-> FALSE]
  /\ proc = "up"
  /\ coord = [k \in RunIds |-> "idle"]
  /\ shuttingDown = FALSE
  /\ waSig = [g \in SignalNames |-> "none"]
  /\ effects = NoEffects
  /\ order = <<>>
  /\ dbOpen = TRUE
  /\ credDisk = 0
  /\ credStore = 0
  /\ sigs = 0

BatchIds == 1..MaxBatches

HandlerDone == [i |-> 0, at |-> "done"]

OrdIdle ==
  /\ ordVariant = "none"
  /\ batches = [b \in BatchIds |-> <<>>]
  /\ nbatch = 0
  /\ hpos = [b \in BatchIds |-> HandlerDone]
  /\ issued = <<>>

PersistIds == 1..MaxPersists

NoRun == [at |-> "idle", files |-> 0, by |-> "none"]

PersistIdle ==
  /\ authDirVer = 0
  /\ sessionVer = 0
  /\ runs = [k \in PersistIds |-> NoRun]
  /\ lastReadVer = 0

FileNames == {"creds.json", "pre-key-1.json"}

Absent == "absent"

EmptyBundle == [f \in FileNames |-> Absent]

\* the store holds nothing under a file name
NoDoc == <<>>

EmptyStore == [f \in FileNames |-> NoDoc]

CredsIdle ==
  /\ credVariant = "none"
  /\ disk = EmptyBundle
  /\ store = EmptyStore
  /\ up = FALSE
  /\ bootDisk = EmptyBundle
  /\ bootStore = EmptyStore
  /\ loaded = "none"
  /\ lastUpdate = NoUpdate
  /\ lastSnap = EmptyBundle
  /\ reauthAsked = FALSE
  /\ storeCleared = FALSE

(***************************************************************************)
(* Inbound WhatsApp messages (msg.key.id, msg.key.remoteJid,               *)
(* msg.key.fromMe, text or not).  A redelivered event carries the same     *)
(* message.                                                                *)
(***************************************************************************)
Jids == {"c1", "c2"}
NoMapping == "none"
FallbackJid == "fallback"
DefaultJid == "default"

WaMsgIds == {"M1", "M2", "M3", "M4", "M5"}
RemoteJid(m) == IF m = "M2" THEN "c2" ELSE "c1"
\* the messages whose key.fromMe is set: what the bridge's own account sent,
\* the echo of a delivery acknowledgement included
SelfSent == {"M4"}
\* a filter that lets every message through
FromMeIgnored(m) == FALSE
FromMe(m) == m \in SelfSent
HasText(m) == m \notin {"M3", "M5"}
\* the message object has a content key (M5 is an empty one)
HasKeys(m) == m # "M5"

NoText == "null"
\* '[non-text message received]' of src/unnamed/part_004:219
Marker == "marker"

NotTried == [passed |-> 0, texts |-> {}]

(***************************************************************************)
(* Inbound Telegram updates (msg.message_id, msg.chat.id, msg.text,        *)
(* msg.reply_to_message).  A redelivered update carries the same message.  *)
(***************************************************************************)
TgUpdateIds == {"U1", "U2", "U3", "U4", "U5"}
\* "fwd": a reply to message 1 of the bot; "unknown": a reply to a message
\* the bridge never forwarded; "none": not a reply
ReplyKind(u) == CASE u = "U2" -> "unknown" [] u = "U3" -> "none" [] OTHER -> "fwd"
ReplyToId(u) == 1
\* the updates whose msg.chat.id is not the configured chat
ForeignUpdates == {"U4"}
\* a filter that takes every chat for the configured one
FromAnyChat(u) == TRUE
\* msg.chat.id.toString() === process.env.TELEGRAM_CHAT_ID (telegram.js:35-36,
\* part_007:23, part_008:9); whatsapp.js:277 puts the chat id into its query
FromBridgedChat(u) == u \notin ForeignUpdates
TgHasText(u) == u # "U5"

\* deliv: deliveries handled; hits / misses: deliveries of a text reply from the
\* bridged chat whose lookup found a mapping / found none; waOk, waFail:
\* WhatsApp sends that succeeded, failed; resp: notices Telegram accepted, of
\* the kinds in kinds; noticeErr: notices Telegram rejected; escaped:
\* rejections that left the handler uncaught; missResp,
\* missSends: 'mapping not found' notices and WhatsApp sends on a miss
NewUpd == [deliv |-> 0, hits |-> 0, misses |-> 0, waOk |-> 0, waFail |-> 0, resp |-> 0,
           kinds |-> {}, noticeErr |-> 0, missResp |-> 0, missSends |-> 0,
           escaped |-> 0]

(***************************************************************************)
(* The mapping store.                                                      *)
(***************************************************************************)
\* MessageMap.create(...) (src/src/whatsapp.js:231): a new document
MessageMapCreate(docs, tg, jid, at) == docs \cup {[tg |-> tg, jid |-> jid, at |-> at]}

\* a write that leaves the earlier document of the id in place
MappingUpsertAdds(docs, tg, jid, at) == docs \cup {[tg |-> tg, jid |-> jid, at |-> at]}

\* Mapping.updateOne({telegramMsgId}, {telegramMsgId, waJid, createdAt}, {upsert})
MappingUpsert(docs, tg, jid, at) ==
  {d \in docs : d.tg # tg} \cup {[tg |-> tg, jid |-> jid, at |-> at]}

\* Mapping.findOneAndUpdate({telegramMsgId}, {waJid}, {upsert}) of part_005:73
\* and part_006:106: the document of the id gets the new waJid and keeps its
\* createdAt; without one a document is inserted with the schema's default
MappingFindOneAndUpdate(docs, tg, jid, at) ==
  IF \E d \in docs : d.tg = tg
  THEN {IF d.tg = tg THEN [d EXCEPT !.jid = jid] ELSE d : d \in docs}
  ELSE docs \cup {[tg |-> tg, jid |-> jid, at |-> at]}

\* findOne by Telegram message id (newest first): the conversation, or NoMapping.
\* The query does not look at createdAt.
FindOne(docs, tg) ==
  LET hit == {d \in docs : d.tg = tg}
  IN IF hit = {} THEN NoMapping
     ELSE (CHOOSE d \in hit : \A e \in hit : e.at <= d.at).jid

\* the conversation a reply of update u is looked up to
Lookup(docs, u) ==
  IF ReplyKind(u) = "fwd" THEN FindOne(docs, ReplyToId(u)) ELSE NoMapping

\* the TTL index of Mapping.createdAt: what MongoDB's TTL monitor keeps
Expired(d, t) == d.at + MappingTTLDays <= t
TTLKeep(docs, t) == {d \in docs : ~Expired(d, t)}

(***************************************************************************)
(* WhatsApp -> Telegram: the messages.upsert handlers.                     *)
(***************************************************************************)
\* extractTextFromMessage of src/src/whatsapp.js:46: text or caption, else null
ExtractTextWjs(m) == IF HasText(m) THEN "text" ELSE NoText

\* extractTextFromMessage of src/unnamed/part_004:124: text or caption, else
\* the name of the message's first key; nothing when there is no key
ExtractTextP4(m) == IF HasText(m) THEN "text" ELSE IF HasKeys(m) THEN "keyname" ELSE NoText

\* src/unnamed/part_005:59: conversation or extendedTextMessage.text
ExtractTextP5(m) == IF HasText(m) THEN "text" ELSE NoText

\* the event passed the filters (or not) and text was handed to the Telegram
\* send (NoText: nothing was)
Tried(m, passed, text) ==
  tgTried' = [tgTried EXCEPT ![m] =
    [passed |-> @.passed + (IF passed THEN 1 ELSE 0),
     texts |-> @.texts \cup (IF passed /\ text # NoText THEN {text} ELSE {})]]

WaBudget(m) == waIn[m] < MaxRedeliver /\ events < MaxEvents

\* Telegram accepted the forward of m and returned message id tgNext
Forwarded(m, mapped) ==
  /\ tgNext <= MaxTgId
  /\ tgNext' = tgNext + 1
  /\ tgFwd' = [tgFwd EXCEPT ![m] = @ + 1]
  /\ fwdLog' = fwdLog \cup {[tg |-> tgNext, jid |-> RemoteJid(m), at |-> now, mapped |-> mapped]}

\* a handler that records a mapping although Telegram returned nothing
NotForwardedButMapped ==
  /\ UNCHANGED <<tgNext, tgFwd, fwdLog>>
  /\ mapDocs' = MessageMapCreate(mapDocs, tgNext, DefaultJid, now)

NotForwarded == UNCHANGED <<tgNext, tgFwd, fwdLog, mapDocs>>

WaSend(to, kind, ref, ok) ==
  waOut' = IF ok THEN waOut \cup {[to |-> to, kind |-> kind, ref |-> ref]} ELSE waOut

\* src/src/whatsapp.js:204-257
UpsertWjs(m, notify, tgOk, storeOk, ackOk) ==
  /\ variant = "wjs"
  /\ WaBudget(m)
  /\ waIn' = [waIn EXCEPT ![m] = @ + 1]
  /\ events' = events + 1
  /\ Tried(m, notify /\ ~FromMe(m), ExtractTextWjs(m))
  /\ IF notify /\ ~FromMe(m) /\ ExtractTextWjs(m) # NoText
     THEN IF tgOk
          THEN /\ Forwarded(m, storeOk)
               /\ mapDocs' = IF storeOk
                             THEN MessageMapCreate(mapDocs, tgNext, RemoteJid(m), now)
                             ELSE mapDocs
               /\ WaSend(RemoteJid(m), "ack", m, ackOk)
          ELSE /\ NotForwarded
               /\ WaSend(RemoteJid(m), "failed", m, ackOk)
     ELSE /\ NotForwarded
          /\ UNCHANGED waOut
  /\ UNCHANGED <<variant, fallbackSet, now, upd>>

\* a handler that takes the mapping back when the acknowledgement fails
AfterAckRolledBack(docs, tg, ackOk) == IF ackOk THEN docs ELSE {d \in docs : d.tg # tg}

\* the mapping store once the acknowledgement has settled: the catch of
\* part_004:260-264 (part_005:86-88, part_006:113-115) only logs
AfterAck(docs, tg, ackOk) == docs

\* src/unnamed/part_004:203-272 (telegramBotRef attached)
UpsertP4(m, tgOk, storeOk, ackOk) ==
  /\ variant = "p4"
  /\ WaBudget(m)
  /\ waIn' = [waIn EXCEPT ![m] = @ + 1]
  /\ events' = events + 1
  /\ Tried(m, ~FromMe(m), IF ExtractTextP4(m) = NoText THEN Marker ELSE ExtractTextP4(m))
  /\ IF FromMe(m)
     THEN /\ NotForwarded
          /\ UNCHANGED waOut
     ELSE IF ExtractTextP4(m) = NoText
     THEN \* lines 211-237: the marker is sent and mapped, no acknowledgement
          /\ UNCHANGED waOut
          /\ IF tgOk
             THEN /\ Forwarded(m, storeOk)
                  /\ mapDocs' = IF storeOk
                                THEN MappingUpsert(mapDocs, tgNext, RemoteJid(m), now)
                                ELSE mapDocs
             ELSE NotForwarded
     ELSE IF tgOk
          THEN /\ Forwarded(m, storeOk)
               /\ IF storeOk
                  THEN /\ mapDocs' = AfterAck(MappingUpsert(mapDocs, tgNext, RemoteJid(m), now),
                                              tgNext, ackOk)
                       /\ WaSend(RemoteJid(m), "ack", m, ackOk)
                  ELSE UNCHANGED <<mapDocs, waOut>>
          ELSE /\ NotForwarded
               /\ UNCHANGED waOut
  /\ UNCHANGED <<variant, fallbackSet, now, upd>>

\* src/unnamed/part_005:56-91
UpsertP5(m, notify, tgOk, storeOk, ackOk) ==
  /\ variant = "p8"
  /\ WaBudget(m)
  /\ waIn' = [waIn EXCEPT ![m] = @ + 1]
  /\ events' = events + 1
  /\ Tried(m, ~FromMe(m) /\ notify, ExtractTextP5(m))
  /\ IF ~FromMe(m) /\ notify /\ ExtractTextP5(m) # NoText
     THEN IF tgOk
          THEN /\ Forwarded(m, storeOk)
               /\ IF storeOk
                  THEN /\ mapDocs' = AfterAck(MappingFindOneAndUpdate(mapDocs, tgNext,
                                                                      RemoteJid(m), now),
                                              tgNext, ackOk)
                       /\ WaSend(RemoteJid(m), "ack", m, ackOk)
                  ELSE UNCHANGED <<mapDocs, waOut>>
          ELSE /\ NotForwarded
               /\ UNCHANGED waOut
     ELSE /\ NotForwarded
          /\ UNCHANGED waOut
  /\ UNCHANGED <<variant, fallbackSet, now, upd>>

(***************************************************************************)
(* Telegram -> WhatsApp: the update handlers.                              *)
(***************************************************************************)
TgBudget(u) ==
  /\ upd[u].deliv < MaxRedeliver
  /\ events < MaxEvents
  /\ ReplyKind(u) = "fwd" => tgNext > ReplyToId(u)

\* try { await waSock.sendMessage(..); await bot.sendMessage(ok notice) }
\* catch { await bot.sendMessage(failure notice) }
TryForward(r, waOk, n1Ok, n2Ok, okKind) ==
  IF waOk
  THEN IF n1Ok
       THEN [r EXCEPT !.waOk = @ + 1, !.resp = @ + 1, !.kinds = @ \cup {okKind}]
       ELSE IF n2Ok
            THEN [r EXCEPT !.waOk = @ + 1, !.noticeErr = @ + 1, !.resp = @ + 1,
                           !.kinds = @ \cup {"fail"}]
            ELSE [r EXCEPT !.waOk = @ + 1, !.noticeErr = @ + 2]
  ELSE IF n1Ok
       THEN [r EXCEPT !.waFail = @ + 1, !.resp = @ + 1, !.kinds = @ \cup {"fail"}]
       ELSE [r EXCEPT !.waFail = @ + 1, !.noticeErr = @ + 1]

\* one bot.sendMessage(notice)
Notice(r, ok, kind) ==
  IF ok THEN [r EXCEPT !.resp = @ + 1, !.kinds = @ \cup {kind}]
  ELSE [r EXCEPT !.noticeErr = @ + 1]

\* a delivery of a reply whose lookup found a mapping / found none
Hit(r) == [r EXCEPT !.hits = @ + 1]
Miss(r) == [r EXCEPT !.misses = @ + 1]
MissSend(r) == [r EXCEPT !.misses = @ + 1, !.missSends = @ + 1]
MissNotice(r, ok) ==
  IF ok THEN [Notice(Miss(r), ok, "miss") EXCEPT !.missResp = @ + 1]
  ELSE Notice(Miss(r), ok, "miss")

\* src/src/whatsapp.js:267-302
HandleTelegramUpdate(u, findOk, waOk, n1Ok) ==
  /\ variant = "wjs"
  /\ TgBudget(u)
  /\ events' = events + 1
  /\ LET r == [upd[u] EXCEPT !.deliv = @ + 1]
         \* findOne({telegramChatId: String(msg.chat.id), telegramMessageId})
         jid == IF FromBridgedChat(u) THEN Lookup(mapDocs, u) ELSE NoMapping
     IN IF ReplyKind(u) = "none" \/ ~findOk
        THEN /\ upd' = [upd EXCEPT ![u] = r]
             /\ UNCHANGED waOut
        ELSE IF jid = NoMapping
        THEN /\ upd' = [upd EXCEPT ![u] =
                  IF FromBridgedChat(u) /\ TgHasText(u) THEN Miss(r) ELSE r]
             /\ UNCHANGED waOut
        ELSE IF ~TgHasText(u)
        THEN /\ upd' = [upd EXCEPT ![u] = r]
             /\ UNCHANGED waOut
        ELSE /\ WaSend(jid, "reply", u, waOk)
             /\ upd' = [upd EXCEPT ![u] =
                  IF waOk
                  THEN Notice([Hit(r) EXCEPT !.waOk = @ + 1], n1Ok, "ok")
                  ELSE [Hit(r) EXCEPT !.waFail = @ + 1]]
  /\ UNCHANGED <<variant, fallbackSet, now, mapDocs, tgNext, waIn, tgFwd, fwdLog, tgTried>>

\* src/src/telegram.js:34-83
RegisterHandlersMessage(u, findOk, waOk, n1Ok, n2Ok) ==
  /\ variant = "p4"
  /\ TgBudget(u)
  /\ events' = events + 1
  /\ LET r == [upd[u] EXCEPT !.deliv = @ + 1]
         jid == Lookup(mapDocs, u)
     IN IF ~FromBridgedChat(u) \/ ~TgHasText(u)
        THEN /\ upd' = [upd EXCEPT ![u] = r]
             /\ UNCHANGED waOut
        ELSE IF ReplyKind(u) = "none"
        THEN /\ upd' = [upd EXCEPT ![u] = Notice(r, n1Ok, "instr")]
             /\ UNCHANGED waOut
        ELSE IF ~findOk
        THEN /\ upd' = [upd EXCEPT ![u] = r]
             /\ UNCHANGED waOut
        ELSE IF jid # NoMapping
        THEN /\ WaSend(jid, "reply", u, waOk)
             /\ upd' = [upd EXCEPT ![u] = TryForward(Hit(r), waOk, n1Ok, n2Ok, "ok")]
        ELSE IF fallbackSet
        THEN /\ WaSend(FallbackJid, "reply", u, waOk)
             /\ upd' = [upd EXCEPT ![u] =
                  TryForward(MissSend(r), waOk, n1Ok, n2Ok, "fallback")]
        ELSE /\ upd' = [upd EXCEPT ![u] = MissNotice(r, n1Ok)]
             /\ UNCHANGED waOut
  /\ UNCHANGED <<variant, fallbackSet, now, mapDocs, tgNext, waIn, tgFwd, fwdLog, tgTried>>

\* src/unnamed/part_008:7-41
\* part_008:21-24, 35-38: the notice posted from the catch block is awaited
\* outside any try, so its rejection leaves the handler
CatchNoticeRejects(waOk, n1Ok, n2Ok) == IF waOk THEN ~n1Ok /\ ~n2Ok ELSE ~n1Ok

Thrown(r, c) == IF c THEN [r EXCEPT !.escaped = @ + 1] ELSE r

SetupTelegramMessage(u, findOk, waOk, n1Ok, n2Ok) ==
  /\ variant = "p8"
  /\ TgBudget(u)
  /\ events' = events + 1
  /\ LET r == [upd[u] EXCEPT !.deliv = @ + 1]
         jid == Lookup(mapDocs, u)
     IN IF ~FromBridgedChat(u)
        THEN /\ upd' = [upd EXCEPT ![u] = r]
             /\ UNCHANGED waOut
        ELSE IF ReplyKind(u) # "none" /\ ~findOk
        THEN \* part_008:15: Mapping.findOne is awaited outside any try
             /\ upd' = [upd EXCEPT ![u] = Thrown(r, TRUE)]
             /\ UNCHANGED waOut
        ELSE IF ReplyKind(u) # "none" /\ jid # NoMapping
        THEN /\ WaSend(jid, "reply", u, waOk)
             /\ upd' = [upd EXCEPT ![u] =
                  Thrown(TryForward(Hit(r), waOk, n1Ok, n2Ok, "ok"),
                         CatchNoticeRejects(waOk, n1Ok, n2Ok))]
        ELSE IF TgHasText(u)
        THEN /\ WaSend(DefaultJid, "reply", u, waOk)
             /\ upd' = [upd EXCEPT ![u] =
                  Thrown(TryForward(IF ReplyKind(u) # "none" THEN MissSend(r) ELSE r,
                                    waOk, n1Ok, n2Ok, "default"),
                         CatchNoticeRejects(waOk, n1Ok, n2Ok))]
        ELSE /\ upd' = [upd EXCEPT ![u] = r]
             /\ UNCHANGED waOut
  /\ UNCHANGED <<variant, fallbackSet, now, mapDocs, tgNext, waIn, tgFwd, fwdLog, tgTried>>

(***************************************************************************)
(* Time, and MongoDB's TTL monitor on Mapping.createdAt.                   *)
(***************************************************************************)
Tick ==
  /\ now + TickDays <= MaxNow
  /\ now' = now + TickDays
  /\ UNCHANGED <<variant, fallbackSet, mapDocs, tgNext, waIn, tgFwd, fwdLog, waOut, upd, events, tgTried>>
  /\ UNCHANGED nonRouterVars

\* src/src/models/Mapping.js:17: the background task that deletes expired documents
TTLMonitor ==
  /\ variant \in {"p4", "p8"}
  /\ mapDocs' = TTLKeep(mapDocs, now)
  /\ mapDocs' # mapDocs
  /\ UNCHANGED <<variant, fallbackSet, now, tgNext, waIn, tgFwd, fwdLog, waOut, upd, events, tgTried>>
  /\ UNCHANGED nonRouterVars

RouterIdle ==
  /\ variant = "none"
  /\ fallbackSet = FALSE
  /\ now = 0
  /\ mapDocs = {}
  /\ tgNext = 1
  /\ waIn = [m \in WaMsgIds |-> 0]
  /\ tgTried = [m \in WaMsgIds |-> NotTried]
  /\ tgFwd = [m \in WaMsgIds |-> 0]
  /\ fwdLog = {}
  /\ waOut = {}
  /\ upd = [u \in TgUpdateIds |-> NewUpd]
  /\ events = 0

InitRouter ==
  /\ variant \in {"wjs", "p4", "p8"}
  /\ fallbackSet \in (IF variant = "p4" THEN BOOLEAN ELSE {FALSE})
  /\ now = 0
  /\ mapDocs = {}
  /\ tgNext = 1
  /\ waIn = [m \in WaMsgIds |-> 0]
  /\ tgTried = [m \in WaMsgIds |-> NotTried]
  /\ tgFwd = [m \in WaMsgIds |-> 0]
  /\ fwdLog = {}
  /\ waOut = {}
  /\ upd = [u \in TgUpdateIds |-> NewUpd]
  /\ events = 0
  /\ ConnIdle
  /\ CredsIdle
  /\ SdIdle
  /\ OrdIdle
  /\ PersistIdle

OnUpsertWjs ==
  /\ \E m \in WaMsgIds, notify, tgOk, storeOk, ackOk \in BOOLEAN :
       UpsertWjs(m, notify, tgOk, storeOk, ackOk)
  /\ UNCHANGED nonRouterVars

OnUpsertP4 ==
  /\ \E m \in WaMsgIds, tgOk, storeOk, ackOk \in BOOLEAN : UpsertP4(m, tgOk, storeOk, ackOk)
  /\ UNCHANGED nonRouterVars

OnUpsertP5 ==
  /\ \E m \in WaMsgIds, notify, tgOk, storeOk, ackOk \in BOOLEAN :
       UpsertP5(m, notify, tgOk, storeOk, ackOk)
  /\ UNCHANGED nonRouterVars

OnHandleTelegramUpdate ==
  /\ \E u \in TgUpdateIds, findOk, waOk, n1Ok \in BOOLEAN :
       HandleTelegramUpdate(u, findOk, waOk, n1Ok)
  /\ UNCHANGED nonRouterVars

OnRegisterHandlersMessage ==
  /\ \E u \in TgUpdateIds, findOk, waOk, n1Ok, n2Ok \in BOOLEAN :
       RegisterHandlersMessage(u, findOk, waOk, n1Ok, n2Ok)
  /\ UNCHANGED nonRouterVars

OnSetupTelegramMessage ==
  /\ \E u \in TgUpdateIds, findOk, waOk, n1Ok, n2Ok \in BOOLEAN :
       SetupTelegramMessage(u, findOk, waOk, n1Ok, n2Ok)
  /\ UNCHANGED nonRouterVars

NextRouter ==
  \/ OnUpsertWjs
  \/ OnUpsertP4
  \/ OnUpsertP5
  \/ OnHandleTelegramUpdate
  \/ OnRegisterHandlersMessage
  \/ OnSetupTelegramMessage
  \/ Tick
  \/ TTLMonitor

SpecRouter == InitRouter /\ [][NextRouter]_vars

(***************************************************************************)
(* The mapping store on its own: the write each version makes after a      *)
(* forward, the clock and the expiry task.                                 *)
(***************************************************************************)
\* the message_id Telegram returns for a forward.  src/src/whatsapp.js keys a
\* document by chat and message id (whatsapp.js:231-236), and a chat numbers
\* each message once; Mapping is keyed by telegramMsgId alone (Mapping.js:5),
\* whatever chat TELEGRAM_CHAT_ID names, so there an id can come back
ReturnedIds == IF variant = "wjs" THEN {tgNext} \cap (1..MaxTgId) ELSE 1..MaxTgId

\* the write after a forward that Telegram answered with message id tg:
\* MessageMap.create (whatsapp.js:231-236), Mapping.updateOne with upsert
\* (part_004:251-257), Mapping.findOneAndUpdate with upsert (part_006:106-110)
MappingWrite(tg, jid) ==
  /\ Cardinality(fwdLog) < MaxWrites
  /\ tg \in ReturnedIds
  /\ mapDocs' = CASE variant = "wjs" -> MessageMapCreate(mapDocs, tg, jid, now)
                  [] variant = "p4"  -> MappingUpsert(mapDocs, tg, jid, now)
                  [] OTHER           -> MappingFindOneAndUpdate(mapDocs, tg, jid, now)
  /\ fwdLog' = fwdLog \cup {[tg |-> tg, jid |-> jid, at |-> now, mapped |-> TRUE]}
  /\ tgNext' = IF tg = tgNext THEN tgNext + 1 ELSE tgNext
  /\ UNCHANGED <<variant, fallbackSet, now, waIn, tgFwd, waOut, upd, events, tgTried>>
  /\ UNCHANGED nonRouterVars

OnMappingWrite == \E tg \in 1..MaxTgId, jid \in Jids : MappingWrite(tg, jid)

\* the conversation ids the store holds for Telegram message id tg
JidsOf(docs, tg) == {d.jid : d \in {e \in docs : e.tg = tg}}

InitMapping == InitRouter /\ ~fallbackSet

NextMapping ==
  \/ OnMappingWrite
  \/ Tick
  \/ TTLMonitor

SpecMapping == InitMapping /\ [][NextMapping]_vars

(***************************************************************************)
(* The claims about the router.                                            *)
(***************************************************************************)
\* C1: each native WhatsApp message id causes at most one Telegram send,
\* however often its messages.upsert event is delivered (src/src/whatsapp.js)
C1_AtMostOneForwardPerMessage ==
  variant = "wjs" => \A m \in WaMsgIds : tgFwd[m] <= 1

\* C2: the same Telegram update delivered twice, both deliveries replying to a
\* message with a valid mapping and no WhatsApp send failing, puts exactly one
\* send on the WhatsApp side
C2_DuplicateUpdateOneSend ==
  \A u \in TgUpdateIds :
    (variant \in {"wjs", "p4"} /\ upd[u].hits = 2 /\ upd[u].waFail = 0) => upd[u].waOk = 1

\* C3: a reply to the Telegram message id S of a forward from conversation C
\* resolves to C while the mapping's TTL has not elapsed, and to absent once
\* it has
C3_MappingResolvesUntilTTL ==
  variant = "p4" =>
    \A f \in fwdLog :
      f.mapped =>
        FindOne(mapDocs, f.tg) = (IF now < f.at + MappingTTLDays THEN f.jid ELSE NoMapping)

\* C4: every reply that references a message id with no live mapping gets a
\* 'mapping not found' notice and causes no WhatsApp send
C4_MissGivesNoticeAndNoSend ==
  \A u \in TgUpdateIds :
    upd[u].noticeErr = 0 => (upd[u].missResp = upd[u].misses /\ upd[u].missSends = 0)

\* C10: a Telegram message of the bridged chat with a routing outcome
\* (delivered, failed, no mapping) gets exactly one visible response
C10_ExactlyOneResponse ==
  \A u \in TgUpdateIds :
    (upd[u].deliv = 1 /\ upd[u].hits + upd[u].misses = 1 /\ upd[u].noticeErr = 0)
      => upd[u].resp = 1

\* C21: a mapping exists only for a Telegram message id that a successful
\* send returned, with the conversation of the message sent; a failed send
\* leaves no mapping and no record of a forward
C21_MappingOnlyForSentIds ==
  /\ \A d \in mapDocs : \E f \in fwdLog : f.tg = d.tg /\ f.jid = d.jid /\ f.mapped
  /\ \A m \in WaMsgIds : tgFwd[m] <= waIn[m]
  /\ Cardinality(fwdLog) = tgNext - 1

\* a Telegram send has failed (the sender was told so) next to a forward that
\* was mapped
C21_Witness ==
  /\ \E o \in waOut : o.kind = "failed"
  /\ mapDocs # {}

\* C22: a message flagged fromMe is never forwarded to Telegram
C22_SelfSentNeverForwarded == \A m \in SelfSent : tgFwd[m] = 0

\* the bridge has acknowledged a forward to a conversation and a message of
\* its own account in that conversation has come in
C22_Witness ==
  \E m \in SelfSent :
    /\ waIn[m] >= 1
    /\ \E o \in waOut : o.kind = "ack" /\ o.to = RemoteJid(m)

\* C23: a message that is not self-sent and has no text, once its event has
\* passed the filters, was handed to the Telegram send with the fixed marker
\* and with nothing else
C23_NonTextForwardedWithMarker ==
  \A m \in WaMsgIds :
    (~FromMe(m) /\ ~HasText(m) /\ tgTried[m].passed >= 1) => tgTried[m].texts = {Marker}

\* C29: every forward whose mapping was written still has that mapping,
\* unchanged, while it has not expired, whether or not the acknowledgement to
\* the WhatsApp sender went through
C29_MappingSurvivesFailedAck ==
  variant \in {"p4", "p8"} =>
    \A f \in fwdLog :
      (f.mapped /\ ~Expired(f, now)) =>
        \E d \in mapDocs : d.tg = f.tg /\ d.jid = f.jid /\ d.at = f.at

\* a text message was forwarded and mapped, and no acknowledgement reached
\* its sender
C29_Witness ==
  /\ variant = "p4"
  /\ \E m \in WaMsgIds :
       /\ HasText(m) /\ tgFwd[m] >= 1
       /\ \E f \in fwdLog : f.mapped /\ f.jid = RemoteJid(m)
       /\ \A o \in waOut : o.kind # "ack"

\* C30: the mapping store holds at most one conversation id per Telegram
\* message id; a write for an id that already has a mapping replaces the
\* earlier conversation id, and a lookup of the id then returns the one just
\* written
C30_LastWriteWins ==
  [][/\ \A tg \in 1..MaxTgId : Cardinality(JidsOf(mapDocs', tg)) <= 1
     /\ \A tg \in 1..MaxTgId, jid \in Jids :
          MappingWrite(tg, jid) => FindOne(mapDocs', tg) = jid]_vars

\* an id was written for two conversations, and the store holds one document
\* for it
C30_Witness ==
  \E f \in fwdLog, g \in fwdLog :
    /\ f.tg = g.tg /\ f.jid # g.jid
    /\ Cardinality(JidsOf(mapDocs, f.tg)) = 1

\* C38: an update from a chat other than the configured one causes no
\* WhatsApp send, and the bridge posts nothing to Telegram for it (no notice
\* accepted, none attempted)
C38_ForeignChatIgnored ==
  \A u \in ForeignUpdates :
    /\ \A o \in waOut : o.ref # u
    /\ upd[u].resp = 0 /\ upd[u].noticeErr = 0 /\ upd[u].kinds = {}
    /\ upd[u].hits = 0 /\ upd[u].missSends = 0

\* such an update was handled while the message it replies to had a mapping
C38_Witness ==
  \E u \in ForeignUpdates :
    /\ upd[u].deliv >= 1
    /\ ReplyKind(u) = "fwd" /\ TgHasText(u)
    /\ FindOne(mapDocs, ReplyToId(u)) # NoMapping

\* C39: a sender that was sent the delivery acknowledgement has a forward
\* whose Telegram message id was mapped to the sender's conversation
C39_AckImpliesMapping ==
  \A o \in waOut :
    o.kind = "ack" => \E f \in fwdLog : f.jid = o.to /\ f.mapped

\* C18: no failure while one Telegram message is handled (WhatsApp send,
\* Telegram send, mapping lookup) leaves the handler as an uncaught rejection
C18_NoEscapedRejection == \A u \in TgUpdateIds : upd[u].escaped = 0

\* WhatsApp sends attempted for update u
WaAttempts(u) == upd[u].waOk + upd[u].waFail

\* C19: a message of the bridged chat that is not a reply gets the
\* instruction and no WhatsApp send when no fallback id is configured, and is
\* sent to the fallback conversation when one is
C19_NonReplyInstructedOrFallback ==
  \A u \in TgUpdateIds :
    (/\ ReplyKind(u) = "none" /\ FromBridgedChat(u) /\ TgHasText(u)
     /\ upd[u].deliv >= 1 /\ upd[u].noticeErr = 0)
    => IF fallbackSet
       THEN /\ WaAttempts(u) >= 1
            /\ \A o \in waOut : o.ref = u => o.to = FallbackJid
       ELSE "instr" \in upd[u].kinds /\ WaAttempts(u) = 0

\* C20: a reply with a mapping hit, delivered once: a confirmation is posted
\* only if the WhatsApp send succeeded and a failure notice only if it
\* failed, and when Telegram rejects nothing the one that applies is posted
C20_ConfirmationIffSent ==
  \A u \in TgUpdateIds :
    (upd[u].deliv = 1 /\ upd[u].hits = 1)
    => /\ "ok" \in upd[u].kinds => upd[u].waOk = 1
       /\ "fail" \in upd[u].kinds => upd[u].waFail = 1
       /\ upd[u].noticeErr = 0 =>
            /\ upd[u].waOk = 1 => "ok" \in upd[u].kinds
            /\ upd[u].waFail = 1 => "fail" \in upd[u].kinds

(***************************************************************************)
(* Connection lifecycle of the WhatsApp socket.  "v2" is the second        *)
(* startWhatsApp of src/src/whatsapp.js (lines 462-697), which registers   *)
(* two connection.update handlers on every socket (497-536 and 553-592);   *)
(* "p4" is src/unnamed/part_004.  The model follows startWhatsApp from     *)
(* useMultiFileAuthState on (whatsapp.js:466): the publicDir check of line *)
(* 464 is taken to pass.  A socket reports 'open' at most once and 'close' *)
(* exactly once, as its last event.                                        *)
(***************************************************************************)
\* lastDisconnect of a close event: the status code, and whether
\* String(lastDisconnect.error) contains "loggedout"
CloseReasons ==
  { [code |-> 401, text |-> FALSE],
    [code |-> 428, text |-> FALSE],
    [code |-> 500, text |-> TRUE] }

\* variants of the two operators below, used to show that the properties
\* of the lifecycle depend on them
BackoffTenfold(reconnectAttempts) == reconnectAttempts * BackoffStepMs * 10

OpenCounterKept(reconnectAttempts) == reconnectAttempts + 1

\* src/src/whatsapp.js:519
Backoff(reconnectAttempts) == reconnectAttempts * BackoffStepMs

\* src/src/whatsapp.js:504   reconnectAttempts = 0
OpenCounter(reconnectAttempts) == 0

\* src/unnamed/part_004:187-189
LoggedOutP4(r) == r.code = LoggedOutCode \/ r.text

\* the largest delay a version can schedule: the attempt cap times the step
\* (whatsapp.js:518-519), the fixed delay (part_004:194)
DelayCap ==
  CASE connVariant = "v2" -> maxReconnectAttempts * BackoffStepMs
    [] connVariant = "p5" -> 0
    [] connVariant = "p6" -> ReconnectDelayP6Ms
    [] OTHER -> ReconnectDelayMs

\* startWhatsApp up to makeWASocket: a new socket, its closure counter at 0
\* (whatsapp.js:466-480, part_004:145-155)
NewSocket == [st |-> "connecting", attempts |-> 0, opened |-> FALSE, used |-> -1, saves |-> 0,
              retry |-> FALSE, redone |-> FALSE]

Alive == exitStage # "exited"

\* connection.update with connection === 'open'
\* (whatsapp.js:503-510 and 564-568; part_004:179-183)
\* the calls of persistAuthFilesToMongo the 'open' branch makes
\* (whatsapp.js:564-568, part_004:179-183; part_005:50-52 and part_006:75-77
\* only log)
OpenSaves == IF connVariant \in {"v2", "p4"} THEN 1 ELSE 0

\* the webhook handler after 'open': the first connection.update handler of
\* whatsapp.js:503-510 calls onReady with a handler that does nothing, and
\* onReady (index.js:234-238) attaches what it is given
HandlerOnOpen(h) == IF connVariant = "v2" THEN DroppingHandler ELSE h

\* the handler after startWhatsApp has made socket s: whatsapp.js:683-688
\* calls onReady with the handleTelegramUpdate of the new closure; the
\* startWhatsApp of part_004:194 (part_005:49, part_006:82) is called for
\* its effects only, and the handlers registered by setupTelegram(waSock)
\* (part_003:56-63, telegram.js:31) keep the socket they were given
HandlerOnStart(h, s) == IF connVariant = "v2" THEN s ELSE h

ConnectionOpen(s) ==
  /\ Alive
  /\ socks[s].st = "connecting"
  /\ socks' = [socks EXCEPT ![s] =
                 [@ EXCEPT !.st = "open",
                           !.opened = TRUE,
                           !.saves = @ + OpenSaves,
                           !.attempts = IF connVariant = "v2" THEN OpenCounter(@) ELSE @]]
  /\ delays' = <<>>
  /\ tgHandler' = HandlerOnOpen(tgHandler)
  /\ UNCHANGED <<connVariant, nsock, timers, terminalSeen, terminalSched, exitStage, lastSend>>

\* what the close handlers of a version do with the reason r, given the
\* counter value a of the socket's closure: [attempts, sched, delay, clear]
CloseV2(a, r) ==
  IF r.code = LoggedOutCode
    THEN [attempts |-> a + 1,
          sched |-> a + 1 <= maxReconnectAttempts,
          delay |-> Backoff(a + 1),
          clear |-> TRUE]
    ELSE [attempts |-> a, sched |-> FALSE, delay |-> 0, clear |-> FALSE]

CloseP4(a, r) ==
  IF LoggedOutP4(r)
    THEN [attempts |-> a, sched |-> FALSE, delay |-> 0, clear |-> FALSE]
    ELSE [attempts |-> a, sched |-> TRUE, delay |-> ReconnectDelayMs, clear |-> FALSE]

\* src/unnamed/part_005:45-49: unless logged out, startWhatsApp is called
\* at once; its socket is made after the awaits of lines 9-21
CloseP5(a, r) ==
  [attempts |-> a, sched |-> r.code # LoggedOutCode, delay |-> 0, clear |-> FALSE]

\* src/unnamed/part_006:78-84
CloseP6(a, r) ==
  [attempts |-> a, sched |-> r.code # LoggedOutCode, delay |-> ReconnectDelayP6Ms,
   clear |-> FALSE]

CloseOf(a, r) ==
  CASE connVariant = "v2" -> CloseV2(a, r)
    [] connVariant = "p5" -> CloseP5(a, r)
    [] connVariant = "p6" -> CloseP6(a, r)
    [] OTHER -> CloseP4(a, r)

\* the close is not a logout as the version tells one (whatsapp.js:516 and
\* 575, part_004:187-189, part_005:46, part_006:79)
RetryableClose(r) == IF connVariant = "p4" THEN ~LoggedOutP4(r) ELSE r.code # LoggedOutCode

\* variants of the two operators below, used to show that the properties
\* of the lifecycle depend on them
ClosableAgain(st) == st \in {"connecting", "open", "closed"}

TimersKept(ts, t) == ts

\* a socket reports 'close' once, as its last connection.update event
Closable(st) == st \in {"connecting", "open"}

\* setTimeout runs its callback once (whatsapp.js:521, part_004:194,
\* part_006:82); the call of part_005:49 runs once
TimersAfterFire(ts, t) == ts \ {t}

\* connection.update with connection === 'close'
\* (whatsapp.js:511-535 and 570-588; part_004:185-196; part_005:45-49;
\* part_006:78-84)
ConnectionClose(s, r) ==
  /\ Alive
  /\ Closable(socks[s].st)
  /\ LET a == socks[s].attempts
         c == CloseOf(a, r)
         term == terminalSeen \/ r.code = LoggedOutCode
     IN /\ socks' = [socks EXCEPT ![s] =
                       [@ EXCEPT !.st = "closed", !.attempts = c.attempts, !.used = a,
                                 !.retry = RetryableClose(r)]]
        /\ timers' = IF c.sched THEN timers \cup {[by |-> s, delay |-> c.delay]} ELSE timers
        /\ delays' = IF c.sched THEN Append(delays, c.delay) ELSE delays
        /\ terminalSeen' = term
        /\ terminalSched' = IF c.sched /\ term THEN terminalSched + 1 ELSE terminalSched
        /\ exitStage' = IF c.clear /\ exitStage = "none" THEN "clearing" ELSE exitStage
  /\ UNCHANGED <<connVariant, nsock, lastSend, tgHandler>>

\* the setTimeout callback: startWhatsApp again, which makes a new socket
\* (whatsapp.js:521-524 and 462-480; part_004:194 and 145-155)
ReconnectTimer(t) ==
  /\ Alive
  /\ t \in timers
  /\ nsock < MaxSockets
  /\ timers' = TimersAfterFire(timers, t)
  /\ nsock' = nsock + 1
  /\ socks' = [socks EXCEPT ![nsock + 1] = NewSocket, ![t.by].redone = TRUE]
  /\ tgHandler' = HandlerOnStart(tgHandler, nsock + 1)
  /\ UNCHANGED <<connVariant, delays, terminalSeen, terminalSched, exitStage, lastSend>>

\* src/src/whatsapp.js:577-581: clearAuthFromMongoAndDisk has settled
ClearAuthSettled ==
  /\ exitStage = "clearing"
  /\ exitStage' = "timer"
  /\ UNCHANGED <<connVariant, socks, nsock, timers, delays, terminalSeen, terminalSched, lastSend,
                 tgHandler>>
  /\ UNCHANGED nonConnVars

\* src/src/whatsapp.js:583: setTimeout(() => process.exit(1), 300) fires
ProcessExit ==
  /\ exitStage = "timer"
  /\ exitStage' = "exited"
  /\ timers' = {}
  /\ UNCHANGED <<connVariant, socks, nsock, delays, terminalSeen, terminalSched, lastSend,
                 tgHandler>>
  /\ UNCHANGED nonConnVars

\* what the transport makes of a send on a socket in state st
TransportError(st, ok) == IF st = "open" /\ ok THEN "none" ELSE "transport"

\* whatsapp.js:260-263 (and telegram.js:51 on the socket it was given): the
\* text goes straight to sock.sendMessage, whatever the state of the socket
sendTextToJid(s, ok) ==
  /\ Alive
  /\ socks[s].st # "none"
  /\ lastSend' = [st |-> socks[s].st, transport |-> TRUE,
                  err |-> TransportError(socks[s].st, ok), stale |-> FALSE]
  /\ UNCHANGED <<connVariant, socks, nsock, timers, delays, terminalSeen, terminalSched,
                 exitStage, tgHandler>>

\* a Telegram reply with a mapping: waSock.sendMessage on the socket of the
\* attached handler (telegram.js:50-51, part_007:34, part_008:19,
\* whatsapp.js:658); the handler of whatsapp.js:509 drops the update
TelegramReply(ok) ==
  /\ Alive
  /\ tgHandler # DroppingHandler
  /\ lastSend' = [st |-> socks[tgHandler].st, transport |-> TRUE,
                  err |-> TransportError(socks[tgHandler].st, ok),
                  stale |-> tgHandler # nsock]
  /\ UNCHANGED <<connVariant, socks, nsock, timers, delays, terminalSeen, terminalSched,
                 exitStage, tgHandler>>

InitConn ==
  /\ connVariant \in {"v2", "p4", "p5", "p6"}
  /\ nsock = 1
  /\ socks = [s \in SocketIds |-> IF s = 1 THEN NewSocket ELSE NoSocket]
  /\ timers = {}
  /\ delays = <<>>
  /\ terminalSeen = FALSE
  /\ terminalSched = 0
  /\ exitStage = "none"
  /\ lastSend = NoSend
  \* main has wired Telegram to the first socket (part_003:56-63, index.js:234)
  /\ tgHandler = 1
  /\ RouterIdle
  /\ CredsIdle
  /\ SdIdle
  /\ OrdIdle
  /\ PersistIdle

OnConnectionOpen ==
  /\ \E s \in SocketIds : ConnectionOpen(s)
  /\ UNCHANGED nonConnVars

OnConnectionClose ==
  /\ \E s \in SocketIds, r \in CloseReasons : ConnectionClose(s, r)
  /\ UNCHANGED nonConnVars

OnReconnectTimer ==
  /\ \E t \in timers : ReconnectTimer(t)
  /\ UNCHANGED nonConnVars

OnSendTextToJid ==
  /\ \E s \in SocketIds, ok \in BOOLEAN : sendTextToJid(s, ok)
  /\ UNCHANGED nonConnVars

OnTelegramReply ==
  /\ \E ok \in BOOLEAN : TelegramReply(ok)
  /\ UNCHANGED nonConnVars

NextConn ==
  \/ OnSendTextToJid
  \/ OnTelegramReply
  \/ OnConnectionOpen
  \/ OnConnectionClose
  \/ OnReconnectTimer
  \/ ClearAuthSettled
  \/ ProcessExit

SpecConn == InitConn /\ [][NextConn]_vars

\* the callback of socket s's setTimeout (whatsapp.js:521, part_004:194,
\* part_006:82) or its direct call (part_005:49) runs
TimerOf(s) ==
  /\ \E t \in timers : t.by = s /\ ReconnectTimer(t)
  /\ UNCHANGED nonConnVars

\* the event loop runs every callback that is due, and the pending steps of
\* the 401 path (whatsapp.js:577-583)
ConnFairness ==
  /\ \A s \in SocketIds : WF_vars(TimerOf(s))
  /\ WF_vars(ClearAuthSettled)
  /\ WF_vars(ProcessExit)

SpecConnLive == SpecConn /\ ConnFairness

(***************************************************************************)
(* The claims about the connection lifecycle.                              *)
(***************************************************************************)
\* C5: once a close with status 401 (logged out, credential rejected) has
\* been handled, no reconnect is scheduled, by that close or any later one.
C5_NoReconnectAfterTerminal == terminalSched = 0

\* C6: between two opens the second startWhatsApp of whatsapp.js schedules
\* at most maxReconnectAttempts reconnects.
C6_ReconnectsCapped ==
  connVariant = "v2" => Len(delays) <= maxReconnectAttempts

\* C7: the delays of the reconnects scheduled since the last open never
\* decrease, and none is above the cap of the version.
C7_DelaysNonDecreasingCapped ==
  /\ \A i \in 1..Len(delays) : delays[i] <= DelayCap
  /\ \A i \in 1..(Len(delays) - 1) : delays[i] <= delays[i + 1]

\* a state where two reconnects in a row were scheduled with no open between
C7_Witness == Len(delays) >= 2

\* the sockets that were made and have not reported 'close'
LiveSockets == {s \in SocketIds : socks[s].st \in {"connecting", "open"}}

\* C11: at most one socket is live, at most one is connecting, and no
\* startWhatsApp call is pending while a socket is live.
C11_OneConnection ==
  /\ Cardinality(LiveSockets) <= 1
  /\ Cardinality(LiveSockets) + Cardinality(timers) <= 1

\* a second socket is live after the first one closed and was replaced
C11_Witness ==
  /\ connVariant \in {"p4", "p5"}
  /\ \E s \in SocketIds : s > 1 /\ socks[s].st = "open" /\ socks[1].st = "closed"

C33_TerminalStopsWithoutExit ==
  terminalSeen => (terminalSched = 0 /\ exitStage = "none")

\* C34: a send the Telegram side makes goes to the socket startWhatsApp made
\* last, never to one a reconnect has replaced
C34_TelegramSendsOnNewestSocket == ~lastSend.stale

\* C35: the handler attached to the webhook server is never the one that
\* drops every update
C35_RoutingHandlerStays == tgHandler # DroppingHandler

\* C31: after a close that is not a logout, startWhatsApp is eventually called
\* again by the bridge for that close, unless the process is on its way out
\* (or the model has used up its sockets)
C31_RetryableCloseReconnects ==
  \A s \in SocketIds :
    (socks[s].st = "closed" /\ socks[s].retry /\ exitStage = "none")
      ~> (socks[s].redone \/ exitStage # "none" \/ nsock = MaxSockets)

\* C27: a socket that has reported open has caused one save of the
\* credential files by its 'open' handler
C27_OpenSavesOnce == \A s \in SocketIds : socks[s].opened => socks[s].saves = 1

\* C24: a send asked for on a socket that is not open fails with NotConnected
\* and is not handed to the transport
C24_NotConnectedWhenNotOpen ==
  (lastSend # NoSend /\ lastSend.st # "open") =>
    (lastSend.err = "NotConnected" /\ ~lastSend.transport)

(***************************************************************************)
(* Persistence of the credential files.  "wjs" is the first startWhatsApp  *)
(* of src/src/whatsapp.js (AuthFile documents, base64), "v2" the second    *)
(* (same helpers), "p4" src/unnamed/part_004 (one Session document with a  *)
(* files map of utf8 strings).  The auth files are the JSON texts that     *)
(* useMultiFileAuthState writes.                                           *)
(***************************************************************************)
Contents == {"k1", "k2"}

\* content.toString('base64') and Buffer.from(d.contentBase64, 'base64')
\* (whatsapp.js:83 and 68)
ToBase64(c) == <<"b64", c>>

FromBase64(x) == x[2]

\* fs.readFile(full, 'utf8') and fs.writeFile(path, String(content), 'utf8')
\* (part_004:108 and 70)
ReadUtf8(c) == <<"utf8", c>>

WriteUtf8(x) == x[2]

\* { data: state.creds } as a document field, and dbSession.data
\* (part_005:36 and 23)
ToDocument(c) == <<"doc", c>>

FromDocument(x) == x[2]

\* the stored form of a file, and the file a stored form gives back
Encode(c) ==
  CASE credVariant = "p4" -> ReadUtf8(c)
    [] credVariant = "p5" -> ToDocument(c)
    [] OTHER -> ToBase64(c)

Decode(x) ==
  CASE credVariant = "p4" -> WriteUtf8(x)
    [] credVariant = "p5" -> FromDocument(x)
    [] OTHER -> FromBase64(x)

\* restoreAuthFilesFromMongo (whatsapp.js:58-72, part_004:40-80): every
\* stored file is written over the file of that name
restoreAuthFilesFromMongo(d, st) ==
  [f \in FileNames |-> IF st[f] # NoDoc THEN Decode(st[f]) ELSE d[f]]

\* persistAuthFilesToMongo of whatsapp.js:74-91 and 408-425: one upsert per
\* file, in directory order, until one fails; done is the set of files upserted
persistAuthFiles(d, st, done) ==
  [f \in FileNames |-> IF f \in done /\ d[f] # Absent THEN Encode(d[f]) ELSE st[f]]

\* persistAuthFilesToMongo of part_004:95-121: one updateOne that replaces
\* the files map
persistSession(d, st, ok) ==
  IF ok THEN [f \in FileNames |-> IF d[f] # Absent THEN Encode(d[f]) ELSE NoDoc] ELSE st

\* the files a run of the upsert loop can have written when it stops
PersistOutcomes == {{}, {"creds.json"}, FileNames}

persistAuthFilesToMongo(d, st, done) ==
  IF credVariant = "p4" THEN persistSession(d, st, done = FileNames)
  ELSE persistAuthFiles(d, st, done)

\* a load that throws when nothing is stored
LoadResultThrows(storeUp, st) ==
  IF ~storeUp THEN (IF credVariant = "p5" THEN "error" ELSE "failed")
  ELSE IF st = EmptyStore THEN "error" ELSE "restored"

\* how restoreAuthFilesFromMongo ends (whatsapp.js:57-72, part_004:40-80;
\* loadSession of sessionStore.js:10-13 alike): nothing stored is a plain
\* return, a store error is caught and logged (whatsapp.js:133-135); the
\* Session.findOne of part_005:21 is awaited outside any try
LoadResult(storeUp, st) ==
  IF ~storeUp THEN (IF credVariant = "p5" THEN "error" ELSE "failed")
  ELSE IF st = EmptyStore THEN "absent" ELSE "restored"

\* part_005:21-25: Object.assign(state.creds, dbSession.data)
LoadCredsP5(d, st) ==
  [d EXCEPT !["creds.json"] = IF st["creds.json"] # NoDoc THEN Decode(st["creds.json"]) ELSE @]

\* startWhatsApp up to useMultiFileAuthState (whatsapp.js:116-138 and
\* 462-466, part_004:145-150) or to makeWASocket (part_005:7-30): the
\* second version of whatsapp.js goes straight to useMultiFileAuthState
StartWhatsApp(storeUp) ==
  /\ ~up
  /\ LET seen == IF storeUp THEN store ELSE EmptyStore
         res == IF credVariant = "v2" THEN "skipped" ELSE LoadResult(storeUp, seen)
         d == IF credVariant = "v2" \/ res = "error" THEN disk
              ELSE IF credVariant = "p5" THEN LoadCredsP5(disk, seen)
              ELSE restoreAuthFilesFromMongo(disk, seen)
     IN /\ disk' = d
        /\ bootDisk' = d
        /\ bootStore' = seen
        /\ loaded' = res
        \* an error that left the load would end startWhatsApp before the socket
        /\ up' = (res # "error")
  /\ UNCHANGED <<credVariant, store>>

\* creds.update: saveCreds() writes creds.json, then the directory is copied
\* to the store (whatsapp.js:151-162 and 539-550, part_004:158-165)
\* part_005:33-40: state.creds alone goes to the Session document
SaveCredsP5(d, st, ok) ==
  IF ok THEN [st EXCEPT !["creds.json"] = Encode(d["creds.json"])] ELSE st

\* the files whose stored form is the file of the directory
InStore(d, st) == {f \in FileNames : d[f] # Absent /\ st[f] # NoDoc /\ Decode(st[f]) = d[f]}

OnDisk(d) == {f \in FileNames : d[f] # Absent}

\* what a persist that was handed bundle d and got as far as done read
Snapshot(d, done) ==
  IF done = {} \/ (credVariant \in {"p4", "p5"} /\ done # FileNames) THEN lastSnap
  ELSE IF credVariant = "p5" THEN [f \in FileNames |-> IF f = "creds.json" THEN d[f] ELSE Absent]
  ELSE d

\* the promise of the creds.update listener rejects with nobody to catch it:
\* the listeners of whatsapp.js:151-162 and part_004:158-165 wrap their
\* awaits in try/catch, the one of part_005:33-40 awaits the write bare
Unhandled(ok) == credVariant = "p5" /\ ~ok

CredsUpdate(c, done) ==
  /\ up
  /\ LET d == [disk EXCEPT !["creds.json"] = c]
         st == IF credVariant = "p5" THEN SaveCredsP5(d, store, done = FileNames)
               ELSE persistAuthFilesToMongo(d, store, done)
     IN /\ disk' = d
        /\ store' = st
        /\ lastUpdate' = [accepted |-> done = FileNames, stored |-> InStore(d, st),
                          bundle |-> OnDisk(d), unhandled |-> Unhandled(done = FileNames)]
        /\ lastSnap' = Snapshot(d, done)
  /\ UNCHANGED <<credVariant, up, bootDisk, bootStore, loaded>>

\* state.keys.set of useMultiFileAuthState writes a key file; no event
KeysSet(c) ==
  /\ up
  /\ disk' = [disk EXCEPT !["pre-key-1.json"] = c]
  /\ UNCHANGED <<credVariant, store, up, bootDisk, bootStore, loaded>>

\* state.keys.set of useMultiFileAuthState with a null value removes the
\* key file (a used pre-key); no event
KeysRemove ==
  /\ up
  /\ disk["pre-key-1.json"] # Absent
  /\ disk' = [disk EXCEPT !["pre-key-1.json"] = Absent]
  /\ UNCHANGED <<credVariant, store, up, bootDisk, bootStore, loaded>>

\* the files the store holds
StoredFiles(st) == {f \in FileNames : st[f] # NoDoc}

\* connection 'open': the directory is copied to the store
\* (whatsapp.js:188-192 and 564-568, part_004:179-183)
OpenPersist(done) ==
  /\ up
  /\ credVariant # "p5"
  /\ store' = persistAuthFilesToMongo(disk, store, done)
  /\ store' # store
  /\ lastSnap' = Snapshot(disk, done)
  /\ UNCHANGED <<credVariant, disk, up, bootDisk, bootStore, loaded>>

\* the process ends and is started again, on the same disk or on a new one
Restart(wipe) ==
  /\ up
  /\ up' = FALSE
  \* part_005 never calls saveCreds: its creds live in memory only
  /\ disk' = IF wipe THEN EmptyBundle
             ELSE IF credVariant = "p5" THEN [disk EXCEPT !["creds.json"] = Absent]
             ELSE disk
  /\ loaded' = "none"
  /\ UNCHANGED <<credVariant, store, bootDisk, bootStore>>

InitCreds ==
  /\ credVariant \in {"wjs", "v2", "p4", "p5"}
  /\ disk = EmptyBundle
  /\ store = EmptyStore
  /\ up = FALSE
  /\ bootDisk = EmptyBundle
  /\ bootStore = EmptyStore
  /\ loaded = "none"
  /\ lastUpdate = NoUpdate
  /\ lastSnap = EmptyBundle
  /\ reauthAsked = FALSE
  /\ storeCleared = FALSE
  /\ RouterIdle
  /\ ConnIdle
  /\ SdIdle
  /\ OrdIdle
  /\ PersistIdle

OnStartWhatsApp ==
  /\ \E storeUp \in BOOLEAN : StartWhatsApp(storeUp)
  /\ UNCHANGED clearVars
  /\ UNCHANGED lastUpdate
  /\ UNCHANGED lastSnap
  /\ UNCHANGED nonCredVars

OnCredsUpdate ==
  /\ \E c \in Contents, done \in PersistOutcomes : CredsUpdate(c, done)
  /\ UNCHANGED clearVars
  /\ UNCHANGED nonCredVars

OnKeysSet ==
  /\ \E c \in Contents : KeysSet(c)
  /\ UNCHANGED clearVars
  /\ UNCHANGED lastUpdate
  /\ UNCHANGED lastSnap
  /\ UNCHANGED nonCredVars

OnKeysRemove ==
  /\ KeysRemove
  /\ UNCHANGED clearVars
  /\ UNCHANGED lastUpdate
  /\ UNCHANGED lastSnap
  /\ UNCHANGED nonCredVars

OnOpenPersist ==
  /\ \E done \in PersistOutcomes : OpenPersist(done)
  /\ UNCHANGED clearVars
  /\ UNCHANGED lastUpdate
  /\ UNCHANGED nonCredVars

OnRestart ==
  /\ \E wipe \in BOOLEAN : Restart(wipe)
  /\ UNCHANGED clearVars
  /\ UNCHANGED lastUpdate
  /\ UNCHANGED lastSnap
  /\ UNCHANGED nonCredVars

\* whatsapp.js:428-440: delete the stored files, remove the auth directory;
\* each half logs its own failure
clearAuthFromMongoAndDisk(delOk) ==
  /\ store' = IF delOk THEN EmptyStore ELSE store
  /\ lastSnap' = IF delOk THEN EmptyBundle ELSE lastSnap
  /\ storeCleared' = (storeCleared \/ delOk)
  /\ disk' = EmptyBundle

\* whatsapp.js:570-581: a close with status 401 clears the auth and exits
ConnectionClose401(delOk) ==
  /\ up
  /\ credVariant = "v2"
  /\ clearAuthFromMongoAndDisk(delOk)
  /\ up' = FALSE
  /\ loaded' = "none"
  /\ UNCHANGED <<credVariant, bootDisk, bootStore, reauthAsked>>

\* part_010:65-79: the operator's request removes the auth directory only
AdminClearLocalAuth ==
  /\ up
  /\ ~reauthAsked
  /\ reauthAsked' = TRUE
  /\ disk' = EmptyBundle
  /\ UNCHANGED <<credVariant, store, up, bootDisk, bootStore, loaded, storeCleared>>

OnConnectionClose401 ==
  /\ \E delOk \in BOOLEAN : ConnectionClose401(delOk)
  /\ UNCHANGED lastUpdate
  /\ UNCHANGED nonCredVars

OnAdminClearLocalAuth ==
  /\ AdminClearLocalAuth
  /\ UNCHANGED lastUpdate
  /\ UNCHANGED lastSnap
  /\ UNCHANGED nonCredVars

NextCreds ==
  \/ OnConnectionClose401
  \/ OnAdminClearLocalAuth
  \/ OnStartWhatsApp
  \/ OnCredsUpdate
  \/ OnKeysSet
  \/ OnKeysRemove
  \/ OnOpenPersist
  \/ OnRestart

SpecCreds == InitCreds /\ [][NextCreds]_vars

(***************************************************************************)
(* The claims about the credential files.                                  *)
(***************************************************************************)
\* C32: a creds.update whose write to the store fails leaves the connection
\* up with its listeners (so the next creds.update writes again), and the
\* failure does not leave the listener as an unhandled rejection
C32_WriteFailureIsContained ==
  [][\A c \in Contents, done \in PersistOutcomes :
       (CredsUpdate(c, done) /\ done # FileNames) => (up' /\ ~lastUpdate'.unhandled)]_vars

\* C37: when a run of persistAuthFilesToMongo has gone through, the store
\* holds a file exactly for each file of the auth directory, so a file
\* removed from the directory is not written back by the next restore
C37_StoreHasTheFilesOfTheDirectory ==
  [][(/\ credVariant # "p5"
      /\ \/ OpenPersist(FileNames)
         \/ \E c \in Contents : CredsUpdate(c, FileNames))
       => StoredFiles(store') = OnDisk(disk')]_vars

\* C9: when the process has started, every file the store held at the start
\* is in the auth directory that useMultiFileAuthState read, with the
\* content that was persisted; so creds.json is there and no QR is needed.
C9_RestartRestoresBundle ==
  up => \A f \in FileNames :
          bootStore[f] # NoDoc => bootDisk[f] = Decode(bootStore[f])

\* C25: a start that found the store readable and empty got 'absent' from the
\* load, not an error, and went on: the process is up
C25_AbsentIsNotAnError ==
  (credVariant \in {"wjs", "p4"} /\ loaded \notin {"none", "failed"} /\ bootStore = EmptyStore)
    => (loaded = "absent" /\ up)

\* a first start on an empty store and an empty directory
C25_Witness ==
  /\ credVariant \in {"wjs", "p4"}
  /\ up
  /\ loaded = "absent"
  /\ bootDisk = EmptyBundle

\* C26: after a creds.update whose writes the store accepted, the store holds
\* the current content of every file of the credential bundle
C26_UpdateWritesFullBundle ==
  lastUpdate.accepted => lastUpdate.stored = lastUpdate.bundle

\* C28: what a reader finds in the store is the bundle of one persist, whole:
\* every file as the last persist that wrote anything read it, and no other
C28_StoreIsOneSnapshot ==
  \A f \in FileNames :
    store[f] = IF lastSnap[f] = Absent THEN NoDoc ELSE Encode(lastSnap[f])

\* C16: the stored auth files are deleted only after the operator asked for a
\* fresh login; no connection-close handler deletes them on its own.
C16_ClearedOnlyOnRequest == storeCleared => reauthAsked

(***************************************************************************)
(* Shutdown.  graceful.js installs one shutdown function for SIGINT,       *)
(* SIGTERM and uncaughtException; index.js:269-299 has its own, guarded by *)
(* shuttingDown.  part_004 adds process.once handlers for SIGINT and       *)
(* SIGTERM that persist the auth files and exit; part_006 persists only on *)
(* 'beforeExit', which process.exit() never emits.  Every await of these   *)
(* functions is a point where another handler may run, so each action is   *)
(* the code between two awaits.                                            *)
(***************************************************************************)
SdVariants == {"g4", "g6", "idx"}

UsesGraceful == sdVariant \in {"g4", "g6"}

\* the next await of shutdown(sig) after each of its steps; a step whose
\* argument was not given is skipped without yielding
AfterDb == "exit"

AfterSock == IF sdOpts.db THEN "awaitDb" ELSE AfterDb

AfterQueue == IF sdOpts.sock THEN "awaitSock" ELSE AfterSock

AfterStart == IF sdOpts.queue THEN "awaitQueue" ELSE AfterQueue

StageAfter(pc) ==
  CASE pc = "start" -> AfterStart
    [] pc = "awaitQueue" -> AfterQueue
    [] pc = "awaitSock" -> AfterSock
    [] OTHER -> AfterDb

EffectOf(stage) ==
  CASE stage = "awaitQueue" -> "queueStop"
    [] stage = "awaitSock" -> "sockClose"
    [] stage = "awaitDb" -> "dbClose"
    [] OTHER -> "none"

Ran(e, eff) == IF e = "none" THEN eff ELSE [eff EXCEPT ![e] = @ + 1]

Logged(e, ord) == IF e = "none" THEN ord ELSE Append(ord, e)

\* shutdown(sig) of graceful.js from one await to the next: the call it
\* makes there has its effect, and after the last one process.exit(0)
ShutdownStep(k, from) ==
  LET to == StageAfter(from)
      e  == EffectOf(to)
  IN /\ coord' = [coord EXCEPT ![k] = IF to = "exit" THEN "done" ELSE to]
     /\ effects' = Ran(e, effects)
     /\ order' = Logged(e, order)
     /\ dbOpen' = IF e = "dbClose" THEN FALSE ELSE dbOpen
     /\ proc' = IF to = "exit" THEN "exited" ELSE proc

\* gracefulShutdown(signal) of index.js up to its first await
GracefulShutdownStart(k) ==
  /\ coord' = [coord EXCEPT ![k] = IF shuttingDown THEN "done" ELSE "awaitSave"]
  /\ shuttingDown' = TRUE
  /\ UNCHANGED <<effects, order, dbOpen, proc>>

\* process.once('SIGINT' | 'SIGTERM') of part_004 starts gracefulPersist
WaHandlerStart(g) ==
  IF sdVariant = "g4" /\ waSig[g] = "armed"
  THEN waSig' = [waSig EXCEPT ![g] = "persisting"]
  ELSE UNCHANGED waSig

\* what a persist of the auth directory leaves in the store
Persisted == IF dbOpen THEN credDisk ELSE credStore

Signal(g) ==
  /\ proc = "up"
  /\ sigs < MaxSignals
  /\ sigs' = sigs + 1
  /\ WaHandlerStart(g)
  /\ IF UsesGraceful
     THEN ShutdownStep(sigs + 1, "start") /\ UNCHANGED shuttingDown
     ELSE GracefulShutdownStart(sigs + 1)
  /\ UNCHANGED <<sdVariant, sdOpts, credDisk, credStore>>

ShutdownResume(k) ==
  /\ proc = "up"
  /\ UsesGraceful
  /\ coord[k] \in {"awaitQueue", "awaitSock", "awaitDb"}
  /\ ShutdownStep(k, coord[k])
  /\ UNCHANGED <<sdVariant, sdOpts, shuttingDown, waSig, credDisk, credStore, sigs>>

\* index.js:275-285: the persist has settled, mongoose.disconnect() is called
PersistSettled(k) ==
  /\ proc = "up"
  /\ coord[k] = "awaitSave"
  /\ credStore' = Persisted
  /\ effects' = Ran("dbClose", Ran("save", effects))
  /\ order' = order \o <<"save", "dbClose">>
  /\ dbOpen' = FALSE
  /\ coord' = [coord EXCEPT ![k] = "awaitDisconnect"]
  /\ UNCHANGED <<sdVariant, sdOpts, proc, shuttingDown, waSig, credDisk, sigs>>

\* index.js:286-296: disconnected, the exit timer of 800 ms is set
DisconnectSettled(k) ==
  /\ proc = "up"
  /\ coord[k] = "awaitDisconnect"
  /\ coord' = [coord EXCEPT ![k] = "timer"]
  /\ UNCHANGED <<sdVariant, sdOpts, proc, shuttingDown, waSig, effects, order, dbOpen,
                 credDisk, credStore, sigs>>

ExitTimer(k) ==
  /\ proc = "up"
  /\ coord[k] = "timer"
  /\ coord' = [coord EXCEPT ![k] = "done"]
  /\ proc' = "exited"
  /\ UNCHANGED <<sdVariant, sdOpts, shuttingDown, waSig, effects, order, dbOpen,
                 credDisk, credStore, sigs>>

\* part_004:282-292: gracefulPersist has settled, process.exit(0)
gracefulPersist(g) ==
  /\ proc = "up"
  /\ waSig[g] = "persisting"
  /\ waSig' = [waSig EXCEPT ![g] = "done"]
  /\ credStore' = Persisted
  /\ effects' = Ran("save", effects)
  /\ order' = Append(order, "save")
  /\ proc' = "exited"
  /\ UNCHANGED <<sdVariant, sdOpts, coord, shuttingDown, dbOpen, credDisk, sigs>>

\* the protocol changes the credential files: through creds.update, whose
\* handler saves and persists them, or through the key store, which only
\* writes the file
CredentialChange(viaEvent) ==
  /\ proc = "up"
  /\ credDisk < MaxCredVer
  /\ credDisk' = credDisk + 1
  /\ credStore' = IF viaEvent /\ dbOpen THEN credDisk + 1 ELSE credStore
  /\ UNCHANGED <<sdVariant, sdOpts, proc, coord, shuttingDown, waSig, effects, order,
                 dbOpen, sigs>>

\* part_004:274-279: the 30 s interval
PeriodicPersist ==
  /\ proc = "up"
  /\ sdVariant = "g4"
  /\ credStore # Persisted
  /\ credStore' = Persisted
  /\ UNCHANGED <<sdVariant, sdOpts, proc, coord, shuttingDown, waSig, effects, order,
                 dbOpen, credDisk, sigs>>

InitShutdown ==
  /\ sdVariant \in SdVariants
  /\ sdOpts \in [queue : BOOLEAN, sock : BOOLEAN, db : BOOLEAN]
  \* index.js:119-123 and part_003:73 pass the queue and the connection,
  \* index.js:430 passes neither (its key is mongoClient)
  /\ sdOpts.queue = sdOpts.db
  /\ (sdVariant = "idx" => sdOpts = [queue |-> FALSE, sock |-> FALSE, db |-> FALSE])
  /\ proc = "up"
  /\ coord = [k \in RunIds |-> "idle"]
  /\ shuttingDown = FALSE
  /\ waSig = [g \in SignalNames |->
                IF sdVariant = "g4" /\ g # "uncaughtException" THEN "armed" ELSE "none"]
  /\ effects = NoEffects
  /\ order = <<>>
  /\ dbOpen = TRUE
  /\ credDisk = 0
  /\ credStore = 0
  /\ sigs = 0
  /\ RouterIdle
  /\ ConnIdle
  /\ CredsIdle
  /\ OrdIdle
  /\ PersistIdle

OnSignal ==
  /\ \E g \in SignalNames : Signal(g)
  /\ UNCHANGED nonSdVars

OnShutdownResume ==
  /\ \E k \in RunIds : ShutdownResume(k)
  /\ UNCHANGED nonSdVars

OnPersistSettled ==
  /\ \E k \in RunIds : PersistSettled(k)
  /\ UNCHANGED nonSdVars

OnDisconnectSettled ==
  /\ \E k \in RunIds : DisconnectSettled(k)
  /\ UNCHANGED nonSdVars

OnExitTimer ==
  /\ \E k \in RunIds : ExitTimer(k)
  /\ UNCHANGED nonSdVars

OnGracefulPersist ==
  /\ \E g \in SignalNames : gracefulPersist(g)
  /\ UNCHANGED nonSdVars

OnCredentialChange ==
  /\ \E viaEvent \in BOOLEAN : CredentialChange(viaEvent)
  /\ UNCHANGED nonSdVars

OnPeriodicPersist ==
  /\ PeriodicPersist
  /\ UNCHANGED nonSdVars

NextShutdown ==
  \/ OnSignal
  \/ OnShutdownResume
  \/ OnPersistSettled
  \/ OnDisconnectSettled
  \/ OnExitTimer
  \/ OnGracefulPersist
  \/ OnCredentialChange
  \/ OnPeriodicPersist

SpecShutdown == InitShutdown /\ [][NextShutdown]_vars

(***************************************************************************)
(* The claims about shutdown.                                              *)
(***************************************************************************)
\* C13: however many shutdown signals arrive, each teardown side effect
\* (queue stop, credential save, socket close, store close) is run at most
\* once.
C13_EachEffectAtMostOnce ==
  /\ effects.queueStop <= 1
  /\ effects.save <= 1
  /\ effects.sockClose <= 1
  /\ effects.dbClose <= 1

\* C14: when the process has exited after a shutdown signal, a credential
\* save was run, and after it the WhatsApp socket was closed.
C14_SaveThenCloseThenExit ==
  (proc = "exited" /\ sigs >= 1) =>
    \E i, j \in DOMAIN order :
      i < j /\ order[i] = "save" /\ order[j] = "sockClose"

\* C15: when the process has exited after a shutdown signal, the store holds
\* the latest version of the credential files.
C15_StoreHasFinalState ==
  (proc = "exited" /\ sigs >= 1) => credStore = credDisk

(***************************************************************************)
(* Order of the WhatsApp -> Telegram forwards.  The messages.upsert        *)
(* handlers are async functions registered with sock.ev.on: the emitter    *)
(* does not wait for them, so the handler of a later event starts while    *)
(* the handler of an earlier one is suspended in an await.  Inside one     *)
(* handler the messages of the event are taken in turn, and each one is    *)
(* followed to its last await before the next send is issued.  All         *)
(* messages here carry text and are not from the bridge's own account.     *)
(***************************************************************************)
BatchContents == UNION {[1..n -> Jids] : n \in 1..MaxBatchLen}

\* the call of telegramSendRaw / telegramBotRef.sendMessage for message i of
\* event b
Issue(b, i, jids) == Append(issued, [b |-> b, i |-> i, jid |-> jids[i]])

\* the await that follows the one the handler is in; "next" is the end of the
\* loop body
AwaitAfter(at, ok) ==
  CASE at = "awaitSend" /\ ok -> "awaitMap"
    [] at = "awaitSend" /\ ~ok -> IF ordVariant = "wjs" THEN "awaitAck" ELSE "next"
    [] at = "awaitMap" -> "awaitAck"
    [] OTHER -> "next"

\* a messages.upsert event arrives: its handler runs up to the first await,
\* which is the send of its first message
Upsert(jids) ==
  /\ nbatch < MaxBatches
  /\ nbatch' = nbatch + 1
  /\ batches' = [batches EXCEPT ![nbatch + 1] = jids]
  /\ issued' = Issue(nbatch + 1, 1, jids)
  /\ hpos' = [hpos EXCEPT ![nbatch + 1] = [i |-> 1, at |-> "awaitSend"]]
  /\ UNCHANGED ordVariant

\* an await of the handler of event b settles
HandlerResume(b, ok) ==
  /\ hpos[b].at # "done"
  /\ LET to == AwaitAfter(hpos[b].at, ok)
         i  == hpos[b].i
     IN IF to # "next"
        THEN /\ hpos' = [hpos EXCEPT ![b].at = to]
             /\ UNCHANGED issued
        ELSE IF i < Len(batches[b])
             THEN /\ hpos' = [hpos EXCEPT ![b] = [i |-> i + 1, at |-> "awaitSend"]]
                  /\ issued' = Issue(b, i + 1, batches[b])
             ELSE /\ hpos' = [hpos EXCEPT ![b] = HandlerDone]
                  /\ UNCHANGED issued
  /\ UNCHANGED <<ordVariant, batches, nbatch>>

InitOrder ==
  /\ ordVariant \in {"wjs", "p4"}
  /\ batches = [b \in BatchIds |-> <<>>]
  /\ nbatch = 0
  /\ hpos = [b \in BatchIds |-> HandlerDone]
  /\ issued = <<>>
  /\ RouterIdle
  /\ ConnIdle
  /\ CredsIdle
  /\ SdIdle
  /\ PersistIdle

OnUpsert ==
  /\ \E jids \in BatchContents : Upsert(jids)
  /\ UNCHANGED nonOrdVars

OnHandlerResume ==
  /\ \E b \in BatchIds, ok \in BOOLEAN : HandlerResume(b, ok)
  /\ UNCHANGED nonOrdVars

NextOrder ==
  \/ OnUpsert
  \/ OnHandlerResume

SpecOrder == InitOrder /\ [][NextOrder]_vars

\* message x arrived before message y
ArrivedBefore(x, y) == x.b < y.b \/ (x.b = y.b /\ x.i < y.i)

\* C17: of two messages of one conversation, the one that arrived first has
\* its Telegram send issued first.
C17_ArrivalOrderKept ==
  \A p, q \in DOMAIN issued :
    (p < q /\ issued[p].jid = issued[q].jid) => ArrivedBefore(issued[p], issued[q])
(***************************************************************************)
(* Overlapping runs of persistAuthFilesToMongo (part_004:95-121).  A run   *)
(* reads the files of AUTH_DIR and then replaces the files map of the      *)
(* Session document; it is started by the creds.update listener            *)
(* (part_004:158-165), by connection 'open' (part_004:179-183) and by the  *)
(* 30 s interval (part_004:274-279), and nothing keeps a second run from   *)
(* starting while one is between its read and its write.                   *)
(***************************************************************************)
PersistTriggers == {"creds.update", "open", "interval"}

\* saveCreds() or the key store writes a file of AUTH_DIR
AuthDirWrite ==
  /\ authDirVer < MaxCredVer
  /\ authDirVer' = authDirVer + 1
  /\ UNCHANGED <<sessionVer, runs, lastReadVer>>
  /\ UNCHANGED nonPerVars

\* part_004:101-111: run k reads the directory into files
PersistRead(k, by) ==
  /\ runs[k].at = "idle"
  /\ runs' = [runs EXCEPT ![k] = [at |-> "read", files |-> authDirVer, by |-> by]]
  /\ lastReadVer' = authDirVer
  /\ UNCHANGED <<authDirVer, sessionVer>>
  /\ UNCHANGED nonPerVars

\* part_004:112-116: the Session.updateOne of run k is applied
PersistWrite(k) ==
  /\ runs[k].at = "read"
  /\ sessionVer' = runs[k].files
  /\ runs' = [runs EXCEPT ![k].at = "done"]
  /\ UNCHANGED <<authDirVer, lastReadVer>>
  /\ UNCHANGED nonPerVars

InitPersist ==
  /\ authDirVer = 0
  /\ sessionVer = 0
  /\ runs = [k \in PersistIds |-> NoRun]
  /\ lastReadVer = 0
  /\ RouterIdle
  /\ ConnIdle
  /\ CredsIdle
  /\ SdIdle
  /\ OrdIdle

OnPersistRead == \E k \in PersistIds, by \in PersistTriggers : PersistRead(k, by)

OnPersistWrite == \E k \in PersistIds : PersistWrite(k)

NextPersist ==
  \/ AuthDirWrite
  \/ OnPersistRead
  \/ OnPersistWrite

SpecPersist == InitPersist /\ [][NextPersist]_vars

(***************************************************************************)
(* The claims about overlapping persists.                                  *)
(***************************************************************************)
\* C36: when no persist is between its read and its write, the store holds
\* what the run that read AUTH_DIR last has read
C36_LatestReadWins ==
  (\A k \in PersistIds : runs[k].at # "read") => sessionVer = lastReadVer

====
